---- MODULE Spec2Model ----
(***************************************************************************)
(* Model of scripts/convert_csv.py: the member roster converter.           *)
(*                                                                         *)
(* A Python str is modelled as a sequence of one-character strings, so     *)
(* that lower(), strip(), split(), re.sub() and f-string formatting are    *)
(* computed character by character.  Python's None is the value None.      *)
(***************************************************************************)
EXTENDS Integers, Sequences, FiniteSets, TLC

\* ---------------------------------------------------------------- bounds
MaxRows == 2      \* rows the reader yields in one conversion run
MaxPad  == 1      \* blanks put before/after a raw value handed to a function

\* ------------------------------------------------------- Python's values
None == <<"<None>">>          \* the None object (no str has such an element)
E    == <<>>                  \* the empty str ''

Truthy(s) == s # None /\ s # E        \* bool(s) of a str or None

UpperChars == <<"A", "B", "C", "D", "E", "F", "G", "H", "I", "J", "K", "L", "M",
                "N", "O", "P", "Q", "R", "S", "T", "U", "V", "W", "X", "Y", "Z">>
LowerChars == <<"a", "b", "c", "d", "e", "f", "g", "h", "i", "j", "k", "l", "m",
                "n", "o", "p", "q", "r", "s", "t", "u", "v", "w", "x", "y", "z">>
DigitChars == <<"0", "1", "2", "3", "4", "5", "6", "7", "8", "9">>

IsSpace(c) == c \in {" ", "\t", "\n", "\r"}
IsAlpha(c) == (\E i \in 1..26 : UpperChars[i] = c) \/ (\E i \in 1..26 : LowerChars[i] = c)

LowerChar(c) ==
  IF \E i \in 1..26 : UpperChars[i] = c
  THEN LowerChars[CHOOSE i \in 1..26 : UpperChars[i] = c]
  ELSE c

\* str.lower()
lower(s) == [i \in 1..Len(s) |-> LowerChar(s[i])]

RECURSIVE lstrip(_)
lstrip(s) == IF s # <<>> /\ IsSpace(s[1]) THEN lstrip(Tail(s)) ELSE s

RECURSIVE rstrip(_)
rstrip(s) ==
  IF s # <<>> /\ IsSpace(s[Len(s)]) THEN rstrip(SubSeq(s, 1, Len(s) - 1)) ELSE s

\* str.strip()
strip(s) == rstrip(lstrip(s))

\* the first whitespace-delimited token of s, s not starting with a blank
RECURSIVE TakeToken(_)
TakeToken(s) ==
  IF s = <<>> \/ IsSpace(s[1]) THEN <<>> ELSE <<s[1]>> \o TakeToken(Tail(s))

\* str.split(): the list of maximal blank-free runs
RECURSIVE split(_)
split(s) ==
  LET t == lstrip(s) IN
  IF t = <<>> THEN <<>>
  ELSE LET tok == TakeToken(t)
       IN  <<tok>> \o split(SubSeq(t, Len(tok) + 1, Len(t)))

\* ' '.join(parts)
RECURSIVE join(_)
join(parts) ==
  IF parts = <<>> THEN <<>>
  ELSE IF Len(parts) = 1 THEN parts[1]
  ELSE parts[1] \o <<" ">> \o join(Tail(parts))

\* str(n) of a non-negative int, as an f-string renders it
RECURSIVE str(_)
str(n) ==
  IF n < 10 THEN <<DigitChars[n + 1]>>
  ELSE str(n \div 10) \o <<DigitChars[(n % 10) + 1]>>

\* re.sub(r'[^a-zA-Z]', '', s)
RECURSIVE sub_non_letters(_)
sub_non_letters(s) ==
  IF s = <<>> THEN <<>>
  ELSE (IF IsAlpha(s[1]) THEN <<s[1]>> ELSE <<>>) \o sub_non_letters(Tail(s))

\* dict.get(key, default)
Get(d, key, default) == IF key \in DOMAIN d THEN d[key] ELSE default

\* ------------------------------------------------------ string literals
s_inactive == <<"i", "n", "a", "c", "t", "i", "v", "e">>
s_none     == <<"n", "o", "n", "e">>
s_Unknown  == <<"U", "n", "k", "n", "o", "w", "n">>
s_Child    == <<"C", "h", "i", "l", "d">>
s_Parent   == <<"P", "a", "r", "e", "n", "t">>
s_ACTIVE   == <<"A", "C", "T", "I", "V", "E">>
s_INACTIVE == <<"I", "N", "A", "C", "T", "I", "V", "E">>
s_RR       == <<"R", "R">>
s_R        == <<"R">>
s_rr       == <<"r", "r">>
s_r        == <<"r">>
s_Pre1     == <<"P", "r", "e", " ", "l", "e", "v", "e", "l", " ", "1">>
s_pre1     == <<"p", "r", "e", " ", "l", "e", "v", "e", "l", " ", "1">>
s_Level(d) == <<"L", "e", "v", "e", "l", " ", d>>
s_level(d) == <<"l", "e", "v", "e", "l", " ", d>>
s_domain   == <<"@", "p", "l", "a", "c", "e", "h", "o", "l", "d", "e", "r", ".", "c", "o", "m">>
s_notes    == <<"I", "m", "p", "o", "r", "t", "e", "d", " ", "f", "r", "o", "m", " ",
                "C", "S", "V", " ", "-", " ", "v", "e", "r", "i", "f", "y", " ",
                "p", "a", "r", "e", "n", "t", " ", "c", "o", "n", "t", "a", "c", "t", " ",
                "d", "e", "t", "a", "i", "l", "s">>

\* ------------------------------------------------------------ the tables
LEVEL_FEES ==
  (s_RR :> 250) @@ (s_R :> 250) @@ (s_Pre1 :> 300) @@
  (s_Level("1") :> 350) @@ (s_Level("2") :> 400) @@ (s_Level("3") :> 450) @@
  (s_Level("4") :> 500) @@ (s_Level("5") :> 550) @@
  (<<"1">> :> 350) @@ (<<"2">> :> 400) @@ (<<"3">> :> 450) @@
  (<<"4">> :> 500) @@ (<<"5">> :> 550)

level_map ==
  (s_rr :> s_RR) @@ (s_r :> s_R) @@ (s_pre1 :> s_Pre1) @@
  (s_level("1") :> s_Level("1")) @@ (s_level("2") :> s_Level("2")) @@
  (s_level("3") :> s_Level("3")) @@ (s_level("4") :> s_Level("4")) @@
  (s_level("5") :> s_Level("5")) @@
  (<<"1">> :> s_Level("1")) @@ (<<"2">> :> s_Level("2")) @@
  (<<"3">> :> s_Level("3")) @@ (<<"4">> :> s_Level("4")) @@
  (<<"5">> :> s_Level("5"))

\* --------------------------------------------------------- the functions
normalize_level(level) ==
  IF ~Truthy(level) \/ lower(level) \in {s_inactive, s_none, E}
  THEN None
  ELSE LET l == strip(level) IN Get(level_map, lower(l), l)

\* get_monthly_fee with the default of an unknown level left at 0
get_monthly_fee_default0(level) ==
  IF ~Truthy(level) THEN 0 ELSE Get(LEVEL_FEES, level, 0)

get_monthly_fee(level) ==
  IF ~Truthy(level) THEN 0 ELSE Get(LEVEL_FEES, level, 350)

parse_name(full_name, first_name, last_name) ==
  IF Truthy(first_name) /\ Truthy(last_name)
  THEN <<strip(first_name), strip(last_name)>>
  ELSE LET parts == IF Truthy(full_name) THEN split(strip(full_name)) ELSE <<>> IN
       IF Len(parts) >= 2 THEN <<parts[1], join(Tail(parts))>>
       ELSE IF Len(parts) = 1 THEN <<parts[1], parts[1]>>
       ELSE <<s_Unknown, s_Child>>

generate_parent_email(first_name, last_name) ==
  sub_non_letters(lower(first_name)) \o <<".">> \o
  sub_non_letters(lower(last_name)) \o s_domain

\* status_of without the case-insensitive test of the level's text
status_of_absent_only(level) ==
  IF ~Truthy(level) THEN s_INACTIVE ELSE s_ACTIVE

\* lines 120-124: the status derived from the normalized level
status_of(level) ==
  IF ~Truthy(level) \/ lower(level) \in {s_inactive, s_none}
  THEN s_INACTIVE
  ELSE s_ACTIVE

\* skip_row without the test of the sentinel first name
skip_row_no_sentinel(child_first, child_last) == ~Truthy(child_last)

\* line 127: the rows without a proper name
skip_row(child_first, child_last) ==
  child_first = s_Unknown \/ ~Truthy(child_last)

\* lines 131-156: the row written for an admitted record
output_row(child_first, child_last, level, status) ==
  LET parent_email == generate_parent_email(child_first, child_last)
      monthly_fee  == IF Truthy(level) THEN get_monthly_fee(level) ELSE 0
  IN  [firstName         |-> child_first,
       lastName          |-> child_last,
       parentFirstName   |-> s_Parent,
       parentLastName    |-> child_last,
       parentEmail       |-> parent_email,
       parentPhone       |-> E,
       level             |-> IF Truthy(level) THEN level ELSE s_R,
       monthlyFee        |-> <<"R">> \o str(monthly_fee),
       status            |-> status,
       dateOfBirth       |-> E,
       gender            |-> E,
       notes             |-> s_notes,
       currentBalance    |-> <<"R", "0">>,
       sagfFee           |-> E,
       equipmentFee      |-> E,
       competitionFee    |-> E,
       lastPaymentDate   |-> E,
       lastPaymentAmount |-> E]

\* writerow putting the row at the head of the file
writerow_at_head(rows, row) == <<row>> \o rows

\* writerow losing the row
writerow_lost(rows, row) == rows

\* writer.writerow(output_row): the row goes to the end of the file
writerow(rows, row) == Append(rows, row)

\* ------------------------------------------------------------ the inputs
RECURSIVE Blanks(_)
Blanks(n) == IF n = 0 THEN <<>> ELSE <<" ">> \o Blanks(n - 1)

Pads == {Blanks(n) : n \in 0..MaxPad}

Padded(cores) == {p \o c \o q : p \in Pads, c \in cores, q \in Pads}

LevelCores ==
  {E, s_inactive, s_none, s_RR, s_rr, s_R, s_r, s_Pre1, s_pre1,
   <<"I", "n", "a", "c", "t", "i", "v", "e">>, s_INACTIVE,
   <<"N", "o", "n", "e">>, <<"N", "O", "N", "E">>,
   <<"g", "o", "l", "d">>, <<"G", "o", "l", "d">>, <<"6">>,
   <<"L", "E", "V", "E", "L", " ", "2">>}
  \cup {s_Level(DigitChars[d + 1]) : d \in 1..5}
  \cup {s_level(DigitChars[d + 1]) : d \in 1..5}
  \cup {<<DigitChars[d + 1]>> : d \in 1..5}

LevelArgs == {None} \cup Padded(LevelCores)

s_Jane    == <<"J", "a", "n", "e">>
s_Doe     == <<"D", "o", "e">>
s_Bongani == <<"B", "o", "n", "g", "a", "n", "i">>
s_AnnLee  == <<"A", "n", "n", "\t", "L", "e", "e">>
s_AnnLeeRoy == <<"A", "n", "n", " ", " ", "L", "e", "e", " ", "R", "o", "y">>
s_UnknownSmith == <<"U", "n", "k", "n", "o", "w", "n", " ", "S", "m", "i", "t", "h">>

NameArgs ==
  ({None} \cup Padded({E, s_Bongani, s_AnnLee, s_AnnLeeRoy}))
  \X ({None} \cup Padded({E, s_Jane, s_Unknown}))
  \X ({None} \cup Padded({E, s_Doe}))

\* A row of csv.DictReader: a dict from the header's column names to the
\* cell, None for the cells a short line does not have (restval); a column
\* the header lacks is no key of the dict.
Missing == <<"<missing>">>

MkRow(full, name, surname, level) ==
  LET cells == ("Full Name" :> full) @@ ("Name" :> name) @@
               ("Surname" :> surname) @@ ("Level" :> level)
      keys  == {k \in DOMAIN cells : cells[k] # Missing}
  IN  [k \in keys |-> cells[k]]

\* name cells (Full Name, Name, Surname) that hold no name at all
EmptyNames ==
  { <<Missing, Missing, Missing>>, <<E, E, E>>, <<None, None, None>>,
    <<E, Missing, None>> }

\* other name cells: usable names, blank cells, the sentinel as a name
OtherNames ==
  { <<s_Bongani, Missing, Missing>>, <<s_AnnLeeRoy, E, E>>,
    <<E, <<" ">>, s_Doe>>, <<E, s_Unknown, s_Doe>>,
    <<E, s_Jane, <<" ">> >>, <<s_UnknownSmith, E, None>> }

RowLevels ==
  { Missing, None, E, <<" ">>, s_inactive, <<" ">> \o s_inactive,
    s_Level("2"), <<"3">>, <<"g", "o", "l", "d">> }

Rows ==
  {MkRow(n[1], n[2], n[3], l) : n \in EmptyNames, l \in RowLevels}
  \cup {MkRow(Missing, s_Jane, s_Doe, l) : l \in RowLevels}
  \cup {MkRow(n[1], n[2], n[3], s_Level("2")) : n \in OtherNames}

\* ------------------------------------------------------------- the state
VARIABLES
  call,            \* the function of the module that was called
  pc,              \* "called" while it runs, "returned" after it returned,
                   \* "reapplied" after normalize_level ran on its own result
  arg,             \* its argument(s)
  ret,             \* its return value
  input,           \* convert_csv: the rows the reader has yielded so far
  output,          \* convert_csv: the rows written to the output file
  rows_converted,  \* convert_csv: the counter of rows written
  rows_skipped     \* convert_csv: the counter of rows skipped

vars == <<call, pc, arg, ret, input, output, rows_converted, rows_skipped>>

conv == <<input, output, rows_converted, rows_skipped>>

Init ==
  /\ \/ call = "normalize_level" /\ arg \in LevelArgs
     \/ call = "get_monthly_fee" /\ arg \in LevelArgs
     \/ call = "parse_name" /\ arg \in NameArgs
     \/ call = "convert_csv" /\ arg = <<>>
  /\ pc = "called"
  /\ ret = None
  /\ input = <<>>
  /\ output = <<>>
  /\ rows_converted = 0
  /\ rows_skipped = 0

NormalizeLevel ==
  /\ call = "normalize_level" /\ pc = "called"
  /\ ret' = normalize_level(arg)
  /\ pc' = "returned"
  /\ UNCHANGED <<call, arg, conv>>

\* normalize_level applied to the level it has just returned
ReNormalizeLevel ==
  /\ call = "normalize_level" /\ pc = "returned"
  /\ ret # None
  /\ arg' = ret
  /\ ret' = normalize_level(ret)
  /\ pc' = "reapplied"
  /\ UNCHANGED <<call, conv>>

GetMonthlyFee ==
  /\ call = "get_monthly_fee" /\ pc = "called"
  /\ ret' = get_monthly_fee(arg)
  /\ pc' = "returned"
  /\ UNCHANGED <<call, arg, conv>>

ParseName ==
  /\ call = "parse_name" /\ pc = "called"
  /\ ret' = parse_name(arg[1], arg[2], arg[3])
  /\ pc' = "returned"
  /\ UNCHANGED <<call, arg, conv>>

\* lines 109-159: one pass of the loop body over the row the reader yields
ProcessRow ==
  /\ call = "convert_csv" /\ pc = "called"
  /\ Len(input) < MaxRows
  /\ \E row \in Rows :
       LET name        == parse_name(Get(row, "Full Name", E),
                                     Get(row, "Name", E),
                                     Get(row, "Surname", E))
           child_first == name[1]
           child_last  == name[2]
           level       == normalize_level(Get(row, "Level", E))
           status      == status_of(level)
       IN  /\ input' = Append(input, row)
           /\ IF skip_row(child_first, child_last)
              THEN /\ rows_skipped' = rows_skipped + 1
                   /\ UNCHANGED <<output, rows_converted>>
              ELSE /\ output' = writerow(output,
                                  output_row(child_first, child_last, level, status))
                   /\ rows_converted' = rows_converted + 1
                   /\ UNCHANGED rows_skipped
  /\ UNCHANGED <<call, pc, arg, ret>>

\* lines 161-165: the reader is exhausted, the summary is reported
Finish ==
  /\ call = "convert_csv" /\ pc = "called"
  /\ pc' = "returned"
  /\ UNCHANGED <<call, arg, ret, conv>>

Next ==
  \/ NormalizeLevel
  \/ ReNormalizeLevel
  \/ GetMonthlyFee
  \/ ParseName
  \/ ProcessRow
  \/ Finish

Spec == Init /\ [][Next]_vars

\* ============================================================ properties

\* the row the loop body has just processed, and what it did with it
Processed == Len(input') = Len(input) + 1
LastRow   == input'[Len(input')]
Emitted   == Len(output') = Len(output) + 1
LastOut   == output'[Len(output')]

RowName(row)  == parse_name(Get(row, "Full Name", E), Get(row, "Name", E),
                            Get(row, "Surname", E))
RowLevel(row) == normalize_level(Get(row, "Level", E))
Admitted(row) == ~skip_row(RowName(row)[1], RowName(row)[2])
RowFor(row)   == output_row(RowName(row)[1], RowName(row)[2], RowLevel(row),
                            status_of(RowLevel(row)))

\* C1: every emitted record has a non-empty, non-"Unknown" firstName and a
\* non-empty lastName.
C1_EmittedNamesProper ==
  \A i \in 1..Len(output) :
    /\ output[i].firstName # E
    /\ output[i].firstName # s_Unknown
    /\ output[i].lastName # E

\* C2: normalize_level returns None for every raw level that is empty or
\* whose trimmed, lower-cased form is "inactive" or "none".
C2_InactiveIsAbsent ==
  (/\ call = "normalize_level"
   /\ pc # "called"
   /\ (~Truthy(arg) \/ lower(strip(arg)) \in {s_inactive, s_none}))
  => ret = None

\* the ordered rule of the Name Resolver, on trimmed values
NonBlank(s) == Truthy(s) /\ strip(s) # E

name_rule(full, given, surname) ==
  IF NonBlank(given) /\ NonBlank(surname)
  THEN <<strip(given), strip(surname)>>
  ELSE IF NonBlank(full)
  THEN LET tokens == split(full) IN
       IF Len(tokens) = 1 THEN <<tokens[1], tokens[1]>>
       ELSE <<tokens[1], join(Tail(tokens))>>
  ELSE <<s_Unknown, s_Child>>

\* C3: parse_name returns the pair fixed by the ordered rule (trimmed given
\* and surname; else the tokens of the full name; else ("Unknown", "Child")),
\* and never an empty name component.
C3_ParseNameRule ==
  (call = "parse_name" /\ pc = "returned")
  => /\ ret = name_rule(arg[1], arg[2], arg[3])
     /\ ret[1] # E
     /\ ret[2] # E

AllNamesEmpty(row) ==
  \A k \in {"Full Name", "Name", "Surname"} : ~Truthy(Get(row, k, E))

\* C4: a record whose "Full Name", "Name" and "Surname" are all empty or
\* missing is rejected whatever its "Level": the rejected counter grows by
\* exactly 1, the accepted counter and the output are unchanged.
C4_EmptyNamesRejected ==
  [][(Processed /\ AllNamesEmpty(LastRow))
     => /\ rows_skipped' = rows_skipped + 1
        /\ rows_converted' = rows_converted
        /\ output' = output]_vars

C4_Witness ==
  /\ Len(input) = 1
  /\ AllNamesEmpty(input[1])
  /\ Get(input[1], "Level", E) = <<"3">>
  /\ rows_skipped = 1
  /\ rows_converted = 0
  /\ output = <<>>

\* the records of the admitted rows of rows, in the order of rows
RECURSIVE AdmittedRecords(_)
AdmittedRecords(rows) ==
  IF rows = <<>> THEN <<>>
  ELSE LET n == Len(rows) IN
       AdmittedRecords(SubSeq(rows, 1, n - 1))
         \o (IF Admitted(rows[n]) THEN <<RowFor(rows[n])>> ELSE <<>>)

\* C5: the output is exactly the records of the admitted input rows in
\* their input order: one record per admitted row, none for a rejected row.
C5_OutputIsAdmittedSubsequence ==
  /\ output = AdmittedRecords(input)
  /\ Len(output) <= Len(input)

C5_Witness ==
  /\ Len(input) = 2
  /\ Len(output) = 2
  /\ output[1].firstName = s_Bongani
  /\ output[2].firstName = s_Jane

CanonicalFees ==
  (s_RR :> 250) @@ (s_R :> 250) @@ (s_Pre1 :> 300) @@
  (s_Level("1") :> 350) @@ (s_Level("2") :> 400) @@ (s_Level("3") :> 450) @@
  (s_Level("4") :> 500) @@ (s_Level("5") :> 550)

DigitFees ==
  (<<"1">> :> 350) @@ (<<"2">> :> 400) @@ (<<"3">> :> 450) @@
  (<<"4">> :> 500) @@ (<<"5">> :> 550)

FeeReturned == call = "get_monthly_fee" /\ pc = "returned"

\* the monthlyFee of an emitted record is "R" and the fee of its level
EmittedFee ==
  Emitted =>
    /\ get_monthly_fee(RowLevel(LastRow)) >= 0
    /\ LastOut.monthlyFee = <<"R">> \o str(get_monthly_fee(RowLevel(LastRow)))

\* C6 as stated: 0 for an absent level, the table amount for the eight
\* canonical levels, 350 for every other non-empty string; the monthlyFee of
\* an emitted record is "R" and that amount for its normalized level.
C6_FeeOriginal ==
  /\ [](FeeReturned =>
          IF arg = None THEN ret = 0
          ELSE IF arg \in DOMAIN CanonicalFees THEN ret = CanonicalFees[arg]
          ELSE (arg # E => ret = 350))
  /\ [][EmittedFee]_vars

\* C6 amended: as above, but the bare digits "1".."5" return the amounts of
\* "Level 1".."Level 5" (350, 400, 450, 500, 550), and 350 is returned for
\* every non-empty string that is neither canonical nor such a digit.
C6_Fee ==
  /\ [](FeeReturned =>
          IF arg = None THEN ret = 0
          ELSE IF arg \in DOMAIN CanonicalFees THEN ret = CanonicalFees[arg]
          ELSE IF arg \in DOMAIN DigitFees THEN ret = DigitFees[arg]
          ELSE (arg # E => ret = 350))
  /\ [][EmittedFee]_vars

C6_Witness == FeeReturned /\ arg = <<"2">> /\ ret = 400

\* C7: the status of every emitted record is "ACTIVE" or "INACTIVE":
\* "INACTIVE" when its normalized level is absent, empty or, ignoring case,
\* "inactive" or "none", and "ACTIVE" otherwise.
C7_Status ==
  /\ [](\A i \in 1..Len(output) : output[i].status \in {s_ACTIVE, s_INACTIVE})
  /\ [][Emitted =>
          LET lvl == RowLevel(LastRow) IN
          LastOut.status =
            IF lvl = None \/ lvl = E \/ lower(lvl) = s_inactive \/ lower(lvl) = s_none
            THEN s_INACTIVE
            ELSE s_ACTIVE]_vars

C7_Witness ==
  /\ Len(input) = 1
  /\ Len(output) = 1
  /\ RowLevel(input[1]) = s_inactive
  /\ output[1].status = s_INACTIVE

\* C8: normalize_level is idempotent on its outputs: applied to a level L it
\* has returned, it returns L or a string equal to L ignoring case.
C8_Idempotent ==
  (call = "normalize_level" /\ pc = "reapplied")
  => (ret # None /\ lower(ret) = lower(arg))

\* C9: in every emitted record the status is "INACTIVE" if and only if the
\* monthlyFee is "R0".
C9_StatusAgreesWithFee ==
  \A i \in 1..Len(output) :
    (output[i].status = s_INACTIVE) <=> (output[i].monthlyFee = <<"R", "0">>)

\* C10: after k records, accepted + rejected = k and the number of emitted
\* records is the accepted count; each processed record adds exactly 1 to
\* exactly one of the counters and no counter ever decreases.
C10_Counters ==
  /\ [](/\ rows_converted + rows_skipped = Len(input)
        /\ Len(output) = rows_converted)
  /\ [][/\ rows_converted' >= rows_converted
        /\ rows_skipped' >= rows_skipped
        /\ Processed =>
             \/ rows_converted' = rows_converted + 1 /\ rows_skipped' = rows_skipped
             \/ rows_converted' = rows_converted /\ rows_skipped' = rows_skipped + 1]_vars

C10_Witness ==
  /\ Len(input) = 2
  /\ rows_converted = 1
  /\ rows_skipped = 1
  /\ Len(output) = 1

====
